---- MODULE Spec2Model ----
(***************************************************************************)
(* A model of the bft Brainfuck interpreter: the program model of          *)
(* bft_types (BfProgram::new, BfProgram::validate) and the tape engine of  *)
(* bft_interp (BfTape::new, the command_* operations, BfTape::interpreter).*)
(*                                                                         *)
(* Indices follow the source: program_pointer and data_pointer are         *)
(* 0-based, so the instruction at the program pointer is                   *)
(* instructions[program_pointer + 1] and the current cell is               *)
(* tape[data_pointer + 1] in the 1-based sequences of TLA+.                *)
(***************************************************************************)
EXTENDS Integers, Sequences, FiniteSets, TLC

VARIABLES
    content,          \* the program text handed to BfProgram::new
    pc,               \* "start" | "program" | "interpreter" | "returned" | "exited"
    instructions,     \* BfProgram.instructions
    jump_locations,   \* BfProgram.jump_locations
    validate_result,  \* result of the last call of validate
    validate_calls,   \* number of calls of validate so far
    new_tape_size,    \* the tape_size BfTape::new was called with (history)
    tape,             \* BfTape.tape
    data_pointer,     \* BfTape.data_pointer
    program_pointer,  \* BfTape.program_pointer
    alloc_strategy,   \* BfTape.alloc_strategy
    output_format,    \* BfTape.output_format
    read_bytes,       \* the bytes the reader has delivered so far
    written,          \* the bytes the writer has accepted so far
    result,           \* what interpreter returned, kind "None" while it runs
    last_read,        \* how the last reader.read ended: "None" | "Err" | "Eof" | "Byte"
    executed,         \* the instruction step executed last (history)
    other_tape,       \* a second BfTape bound to the same program, when there is one
    run_bft_result,   \* what run_bft returned to main, kind "None" before it returns
    exit_status,      \* the exit code of the process, kind "None" while it runs
    move_result       \* what the last move_program_pointer_forward returned, if any

program_vars == <<content, instructions, jump_locations, validate_result, validate_calls>>
tape_vars == <<new_tape_size, tape, data_pointer, program_pointer, alloc_strategy, output_format,
               read_bytes, written, result, last_read, executed>>
main_vars == <<run_bft_result, exit_status>>
\* what no step of the interpreter touches
step_frame == <<pc, program_vars, other_tape, main_vars, new_tape_size, move_result>>
vars == <<pc, program_vars, tape_vars, other_tape, main_vars, move_result>>

----------------------------------------------------------------------------
(* Bounds of the model *)

\* longest text of the program-model specification (any character)
MaxTextLen == 3
\* longest text of command characters run by the engine specification
MaxProgLen == 3
\* largest tape_size given to BfTape::new
MaxTapeSize == 2
\* how many times validate is called on one program
MaxValidateCalls == 2
\* a run is followed while the tape grows to at most this many cells,
MaxTapeLen == 4
\* the reader has delivered at most this many bytes
MaxRead == 3
\* and the writer has accepted at most this many bytes
MaxWritten == 4
\* the counting loop is run with 0..MaxLeadingPlus leading '+'
MaxLeadingPlus == 3

----------------------------------------------------------------------------
(* Program text *)

CommandChars == {">", "<", "+", "-", ".", ",", "[", "]"}
\* "x" stands for every character that is not a command, "\n" ends a line
TextChars == CommandChars \cup {"x", "\n"}

TextsOver(chars, maxlen) == UNION {[1..n -> chars] : n \in 0..maxlen}

\* the programs of the repository's tests and of the specification's scenarios
Scenarios ==
    { <<">", "<", "+", "-", ".">>,
      <<">", "<", "+", "-", "[", ".", "]">>,
      <<">", "<", "+", "-", ".", "]">>,
      <<">", "<", "+", "-", "[", ".">>,
      <<">", "<", "+", "-", "]", ".", "[">>,
      <<">", "<", "+", "\n", "-", ".">>,
      <<"+", "+", "+", "[", ">", "+", "<", "-", "]">> }

\* the programs of the examples of bft_interp, and the steps of its test
\* input_cell_value written as a program
InputScenarios ==
    { <<",", ".">>,
      <<",", "+", ".">>,
      <<",", ">", ",", ">", ",">> }

\* nested and repeated loops, a loop spread over lines with comments
LoopScenarios ==
    { <<"[", "[", "]", "]">>,
      <<"[", "[", "]", "+", "]", "+">>,
      <<"+", "[", "[", "-", "]", "]">>,
      <<"+", "[", "-", "]", "[", "]">>,
      <<"+", "+", "[", ">", "[", "]", "<", "-", "]">>,
      <<"+", "[", "\n", "x", "[", "-", "]", "\n", "]", "x", "+">>,
      <<"[", "[", "]">>,
      <<"[", "]", "[">> }

Texts ==
    TextsOver(TextChars, MaxTextLen) \cup Scenarios \cup LoopScenarios \cup InputScenarios
ProgramTexts ==
    TextsOver(CommandChars, MaxProgLen) \cup Scenarios \cup LoopScenarios \cup InputScenarios

----------------------------------------------------------------------------
(* bft_types: BfCommand, BfLocation, BfInstruction, BfJumpLocation *)

\* BfCommand::from_char: Some(command) for the eight command characters
\* mutant: ',' is not a command
from_char_no_input(ch) ==
    CASE ch = ">" -> "IncDataPointer"
      [] ch = "<" -> "DecDataPointer"
      [] ch = "+" -> "IncValue"
      [] ch = "-" -> "DecValue"
      [] ch = "." -> "OutputValue"
      [] ch = "[" -> "JumpForward"
      [] ch = "]" -> "JumpBackward"
      [] OTHER -> "None"

\* mutant: a character that is no command is kept as a Comment
from_char_comment(ch) ==
    CASE ch = ">" -> "IncDataPointer"
      [] ch = "<" -> "DecDataPointer"
      [] ch = "+" -> "IncValue"
      [] ch = "-" -> "DecValue"
      [] ch = "." -> "OutputValue"
      [] ch = "," -> "InputValue"
      [] ch = "[" -> "JumpForward"
      [] ch = "]" -> "JumpBackward"
      [] OTHER -> "Comment"

from_char(ch) ==
    CASE ch = ">" -> "IncDataPointer"
      [] ch = "<" -> "DecDataPointer"
      [] ch = "+" -> "IncValue"
      [] ch = "-" -> "DecValue"
      [] ch = "." -> "OutputValue"
      [] ch = "," -> "InputValue"
      [] ch = "[" -> "JumpForward"
      [] ch = "]" -> "JumpBackward"
      [] OTHER -> "None"

\* mutant: every location is given the first line
BfLocation_first_line(line, offset) == [line |-> 1, offset |-> offset]

BfLocation(line, offset) == [line |-> line, offset |-> offset]

BfInstruction(command, line, offset) ==
    [command |-> command, location |-> BfLocation(line, offset)]

BfJumpLocation(depth, forward, backward) ==
    [depth |-> depth, forward |-> forward, backward |-> backward]

\* str::lines: the text split at each "\n"; a last line needs no "\n"
RECURSIVE lines_from(_, _, _)
lines_from(text, k, line) ==
    IF k > Len(text)
    THEN IF line = <<>> THEN <<>> ELSE <<line>>
    ELSE IF text[k] = "\n"
         THEN <<line>> \o lines_from(text, k + 1, <<>>)
         ELSE lines_from(text, k + 1, Append(line, text[k]))

lines(text) == lines_from(text, 1, <<>>)

\* the inner loop of BfProgram::new over the characters of one line
RECURSIVE line_instructions(_, _, _)
\* mutant: the offsets are counted from 0
line_instructions_from_zero(line, line_no, char_pos) ==
    IF char_pos > Len(line)
    THEN <<>>
    ELSE LET command == from_char(line[char_pos])
         IN  (IF command # "None"
              THEN <<BfInstruction(command, line_no, char_pos - 1)>>
              ELSE <<>>)
             \o line_instructions(line, line_no, char_pos + 1)

line_instructions(line, line_no, char_pos) ==
    IF char_pos > Len(line)
    THEN <<>>
    ELSE LET command == from_char(line[char_pos])
         IN  (IF command # "None"
              THEN <<BfInstruction(command, line_no, char_pos)>>
              ELSE <<>>)
             \o line_instructions(line, line_no, char_pos + 1)

\* the outer loop of BfProgram::new over the lines of the text
RECURSIVE program_instructions(_, _)
program_instructions(ls, line_no) ==
    IF line_no > Len(ls)
    THEN <<>>
    ELSE line_instructions(ls[line_no], line_no, 1)
         \o program_instructions(ls, line_no + 1)

----------------------------------------------------------------------------
(* BfProgram::validate *)

\* mutant: the end of the scan forgets the '[' that are still open
validate_end_ok(stack, jumps) == [kind |-> "Ok", jump_locations |-> jumps]

\* mutant: the end of the scan reports the bottom of the stack
validate_end_first(stack, jumps) ==
    IF stack # <<>>
    THEN [kind |-> "Extra", instruction |-> stack[1], jump_locations |-> jumps]
    ELSE [kind |-> "Ok", jump_locations |-> jumps]

\* the scan ends with every '[' closed or with the top of the stack reported
validate_end(stack, jumps) ==
    IF stack # <<>>
    THEN [kind |-> "Extra", instruction |-> stack[Len(stack)], jump_locations |-> jumps]
    ELSE [kind |-> "Ok", jump_locations |-> jumps]

\* a ']' is met: an empty stack is an error, otherwise the pair is recorded
RECURSIVE validate_scan(_, _, _, _)
\* mutant: the pair is recorded with the location of the ']' on both sides
validate_jump_backward_same_location(instrs, k, stack, jumps) ==
    IF stack = <<>>
    THEN [kind |-> "Extra", instruction |-> instrs[k], jump_locations |-> jumps]
    ELSE validate_scan(instrs, k + 1, SubSeq(stack, 1, Len(stack) - 1),
             Append(jumps, BfJumpLocation(Len(stack) - 1, instrs[k].location,
                                          instrs[k].location)))

\* mutant: only the pairs of depth 0 are recorded
validate_jump_backward_outermost(instrs, k, stack, jumps) ==
    IF stack = <<>>
    THEN [kind |-> "Extra", instruction |-> instrs[k], jump_locations |-> jumps]
    ELSE validate_scan(instrs, k + 1, SubSeq(stack, 1, Len(stack) - 1),
             IF Len(stack) = 1
             THEN Append(jumps, BfJumpLocation(0, stack[1].location, instrs[k].location))
             ELSE jumps)

\* mutant: a ']' met on an empty stack is passed over and the scan goes on
validate_jump_backward_skip(instrs, k, stack, jumps) ==
    IF stack = <<>>
    THEN validate_scan(instrs, k + 1, stack, jumps)
    ELSE validate_scan(instrs, k + 1, SubSeq(stack, 1, Len(stack) - 1),
             Append(jumps, BfJumpLocation(Len(stack) - 1, stack[Len(stack)].location,
                                          instrs[k].location)))

\* mutant: the depth is taken before the '[' is popped
validate_jump_backward_depth_before_pop(instrs, k, stack, jumps) ==
    IF stack = <<>>
    THEN [kind |-> "Extra", instruction |-> instrs[k], jump_locations |-> jumps]
    ELSE validate_scan(instrs, k + 1, SubSeq(stack, 1, Len(stack) - 1),
             Append(jumps, BfJumpLocation(Len(stack), stack[Len(stack)].location,
                                          instrs[k].location)))

validate_jump_backward(instrs, k, stack, jumps) ==
    IF stack = <<>>
    THEN [kind |-> "Extra", instruction |-> instrs[k], jump_locations |-> jumps]
    ELSE LET last_jump == stack[Len(stack)]
             popped == SubSeq(stack, 1, Len(stack) - 1)
         IN  validate_scan(instrs, k + 1, popped,
                 Append(jumps, BfJumpLocation(Len(popped), last_jump.location,
                                              instrs[k].location)))

\* the loop of validate over the instructions, from the k-th on
validate_scan(instrs, k, stack, jumps) ==
    IF k > Len(instrs)
    THEN validate_end(stack, jumps)
    ELSE IF instrs[k].command = "JumpForward"
         THEN validate_scan(instrs, k + 1, Append(stack, instrs[k]), jumps)
         ELSE IF instrs[k].command = "JumpBackward"
              THEN validate_jump_backward(instrs, k, stack, jumps)
              ELSE validate_scan(instrs, k + 1, stack, jumps)

----------------------------------------------------------------------------
(* Operations of the program model *)

NoTape ==
    /\ new_tape_size = 0
    /\ tape = <<>>
    /\ data_pointer = 0
    /\ program_pointer = 0
    /\ alloc_strategy = "TapeIsFixed"
    /\ output_format = "AsciiOutput"
    /\ read_bytes = <<>>
    /\ written = <<>>
    /\ result = [kind |-> "None"]
    /\ last_read = "None"
    /\ executed = [done |-> FALSE, program_pointer |-> 0, data_pointer |-> 0, cell |-> 0]

InitWith(texts) ==
    /\ content \in texts
    /\ pc = "start"
    /\ instructions = <<>>
    /\ jump_locations = <<>>
    /\ validate_result = [kind |-> "None"]
    /\ validate_calls = 0
    /\ NoTape
    /\ other_tape = [bound |-> FALSE]
    /\ run_bft_result = [kind |-> "None"]
    /\ exit_status = [kind |-> "None"]
    /\ move_result = [kind |-> "None"]

\* BfProgram::new(filename, content)
BfProgram_new ==
    /\ pc = "start"
    /\ pc' = "program"
    /\ instructions' = program_instructions(lines(content), 1)
    /\ jump_locations' = <<>>
    /\ UNCHANGED <<other_tape, move_result, main_vars, content, validate_result,
                   validate_calls, tape_vars>>

\* mutant: validate drains the instructions it scans
validate_draining ==
    /\ pc = "program"
    /\ validate_calls < MaxValidateCalls
    /\ LET v == validate_scan(instructions, 1, <<>>, jump_locations)
       IN  /\ jump_locations' = v.jump_locations
           /\ validate_result' = IF v.kind = "Ok"
                                 THEN [kind |-> "Ok"]
                                 ELSE [kind |-> "Extra", instruction |-> v.instruction]
    /\ validate_calls' = validate_calls + 1
    /\ instructions' = <<>>
    /\ UNCHANGED <<other_tape, move_result, main_vars, content, pc, tape_vars>>

\* mutant: a failing validate puts the table back as it found it
validate_rollback ==
    /\ pc = "program"
    /\ validate_calls < MaxValidateCalls
    /\ LET v == validate_scan(instructions, 1, <<>>, jump_locations)
       IN  /\ jump_locations' = IF v.kind = "Ok" THEN v.jump_locations ELSE jump_locations
           /\ validate_result' = IF v.kind = "Ok"
                                 THEN [kind |-> "Ok"]
                                 ELSE [kind |-> "Extra", instruction |-> v.instruction]
    /\ validate_calls' = validate_calls + 1
    /\ UNCHANGED <<other_tape, move_result, main_vars, content, pc, instructions, tape_vars>>

\* BfProgram::validate(&mut self): the pairs are pushed onto self.jump_locations
validate ==
    /\ pc = "program"
    /\ validate_calls < MaxValidateCalls
    /\ LET v == validate_scan(instructions, 1, <<>>, jump_locations)
       IN  /\ jump_locations' = v.jump_locations
           /\ validate_result' = IF v.kind = "Ok"
                                 THEN [kind |-> "Ok"]
                                 ELSE [kind |-> "Extra", instruction |-> v.instruction]
    /\ validate_calls' = validate_calls + 1
    /\ UNCHANGED <<other_tape, move_result, main_vars, content, pc, instructions, tape_vars>>

----------------------------------------------------------------------------
(* bft_interp: cells and the tape *)

MAX_TAPE_SIZE == 30000
U8_MAX == 255
U8_MODULUS == 256

\* mutant: the increment saturates at the largest value
inc_saturating(cell) == IF cell = U8_MAX THEN U8_MAX ELSE cell + 1

\* CellKind for u8: wrapping_add(1) and wrapping_sub(1)
inc(cell) == (cell + 1) % U8_MODULUS
dec(cell) == (cell + U8_MODULUS - 1) % U8_MODULUS

\* the values a reader delivers in the model
InputBytes == {0, 11, 22, 55}

\* Read::read into a one-byte buffer: an error, end of input, or one byte
ReadOutcomes ==
    {[kind |-> "Err"], [kind |-> "Eof"]} \cup {[kind |-> "Byte", byte |-> b] : b \in InputBytes}

\* BfTape::current_instruction
current_instruction == instructions[program_pointer + 1]

\* BfTape::get_data_value
get_data_value == tape[data_pointer + 1]

\* the tape with the current cell set to value
set_data_value(value) == [tape EXCEPT ![data_pointer + 1] = value]

\* mutant: the error carries the program pointer of the next instruction
BfError_next_pointer(kind) ==
    [kind |-> kind, program_pointer |-> program_pointer + 1,
     instruction |-> current_instruction]

\* the errors of BfError that carry the instruction and the program pointer
BfError(kind) ==
    [kind |-> kind, program_pointer |-> program_pointer, instruction |-> current_instruction]

\* mutant: the end of the tape is not tested
move_data_pointer_forward_unchecked ==
    [ok |-> TRUE, tape |-> tape, data_pointer |-> data_pointer + 1]

\* mutant: the tape grows at its end whatever the allocation strategy
move_data_pointer_forward_always_grows ==
    IF data_pointer = Len(tape) - 1
    THEN [ok |-> TRUE, tape |-> Append(tape, 0), data_pointer |-> data_pointer + 1]
    ELSE [ok |-> TRUE, tape |-> tape, data_pointer |-> data_pointer + 1]

\* mutant: the end of the tape is an error whatever the allocation strategy
move_data_pointer_forward_never_grows ==
    IF data_pointer = Len(tape) - 1
    THEN [ok |-> FALSE, error |-> BfError("DataPtrMovedAfterEnd"),
          tape |-> tape, data_pointer |-> data_pointer]
    ELSE [ok |-> TRUE, tape |-> tape, data_pointer |-> data_pointer + 1]

\* mutant: the data pointer saturates at the first cell
move_data_pointer_back_saturating ==
    IF data_pointer = 0
    THEN [ok |-> TRUE, data_pointer |-> 0]
    ELSE [ok |-> TRUE, data_pointer |-> data_pointer - 1]

\* mutant: at the end of a fixed tape the pointer is advanced before the error
move_data_pointer_forward_moves_then_fails ==
    IF data_pointer = Len(tape) - 1
    THEN IF alloc_strategy = "TapeIsFixed"
         THEN [ok |-> FALSE, error |-> BfError("DataPtrMovedAfterEnd"),
               tape |-> tape, data_pointer |-> data_pointer + 1]
         ELSE [ok |-> TRUE, tape |-> Append(tape, 0), data_pointer |-> data_pointer + 1]
    ELSE [ok |-> TRUE, tape |-> tape, data_pointer |-> data_pointer + 1]

\* mutant: a growing tape is extended by two cells at a time
move_data_pointer_forward_grows_two ==
    IF data_pointer = Len(tape) - 1
    THEN IF alloc_strategy = "TapeIsFixed"
         THEN [ok |-> FALSE, error |-> BfError("DataPtrMovedAfterEnd"),
               tape |-> tape, data_pointer |-> data_pointer]
         ELSE [ok |-> TRUE, tape |-> tape \o <<0, 0>>, data_pointer |-> data_pointer + 1]
    ELSE [ok |-> TRUE, tape |-> tape, data_pointer |-> data_pointer + 1]

\* BfTape::move_data_pointer_forward
move_data_pointer_forward ==
    IF data_pointer = Len(tape) - 1
    THEN IF alloc_strategy = "TapeIsFixed"
         THEN [ok |-> FALSE, error |-> BfError("DataPtrMovedAfterEnd"),
               tape |-> tape, data_pointer |-> data_pointer]
         ELSE [ok |-> TRUE, tape |-> Append(tape, 0), data_pointer |-> data_pointer + 1]
    ELSE [ok |-> TRUE, tape |-> tape, data_pointer |-> data_pointer + 1]

\* BfTape::move_data_pointer_back
move_data_pointer_back ==
    IF data_pointer = 0
    THEN [ok |-> FALSE, error |-> BfError("DataPtrMovedBeforeStart"),
          data_pointer |-> data_pointer]
    ELSE [ok |-> TRUE, data_pointer |-> data_pointer - 1]

\* mutant: the increment is applied to every cell of the tape
increment_data_value_all_cells ==
    [ok |-> TRUE, tape |-> [i \in DOMAIN tape |-> inc(tape[i])]]

\* BfTape::increment_data_value
increment_data_value == [ok |-> TRUE, tape |-> set_data_value(inc(get_data_value))]

\* BfTape::decrement_data_value
decrement_data_value == [ok |-> TRUE, tape |-> set_data_value(dec(get_data_value))]

\* u8::to_string as bytes: the decimal digits of the value, most significant first
RECURSIVE to_string(_)
to_string(n) ==
    IF n < 10 THEN <<48 + n>> ELSE Append(to_string(n \div 10), 48 + (n % 10))

\* mutant: the number is written without its separator
output_bytes_no_separator ==
    IF output_format = "BinaryOutput"
    THEN to_string(get_data_value)
    ELSE <<get_data_value>>

\* mutant: the cell written is the first of the tape
output_bytes_first_cell ==
    IF output_format = "BinaryOutput"
    THEN Append(to_string(tape[1]), 44)
    ELSE <<tape[1]>>

\* BfTape::output_value: what is handed to writer.write
output_bytes ==
    IF output_format = "BinaryOutput"
    THEN Append(to_string(get_data_value), 44)
    ELSE <<get_data_value>>

\* BfTape::output_value, the writer accepting the bytes or failing
output_value(io_ok) ==
    IF io_ok
    THEN [ok |-> TRUE, written |-> written \o output_bytes]
    ELSE [ok |-> FALSE, error |-> BfError("IOError"), written |-> written]

\* mutant: at the end of the input the cell takes the untouched buffer, 0
input_value_eof_buffer(outcome) ==
    IF outcome.kind = "Err"
    THEN [ok |-> FALSE, error |-> BfError("IOError"), tape |-> tape, read_bytes |-> read_bytes]
    ELSE IF outcome.kind = "Eof"
         THEN [ok |-> TRUE, tape |-> set_data_value(0), read_bytes |-> read_bytes]
         ELSE [ok |-> TRUE, tape |-> set_data_value(outcome.byte),
               read_bytes |-> Append(read_bytes, outcome.byte)]

\* mutant: the byte read is stored in the first cell of the tape
input_value_first_cell(outcome) ==
    IF outcome.kind = "Err"
    THEN [ok |-> FALSE, error |-> BfError("IOError"), tape |-> tape, read_bytes |-> read_bytes]
    ELSE IF outcome.kind = "Eof"
         THEN [ok |-> TRUE, tape |-> set_data_value(U8_MAX), read_bytes |-> read_bytes]
         ELSE [ok |-> TRUE, tape |-> [tape EXCEPT ![1] = outcome.byte],
               read_bytes |-> Append(read_bytes, outcome.byte)]

\* BfTape::input_value, for one outcome of reader.read
input_value(outcome) ==
    IF outcome.kind = "Err"
    THEN [ok |-> FALSE, error |-> BfError("IOError"), tape |-> tape, read_bytes |-> read_bytes]
    ELSE IF outcome.kind = "Eof"
         THEN [ok |-> TRUE, tape |-> set_data_value(U8_MAX), read_bytes |-> read_bytes]
         ELSE [ok |-> TRUE, tape |-> set_data_value(outcome.byte),
               read_bytes |-> Append(read_bytes, outcome.byte)]

\* the inner loop of the jumps: the first index whose instruction is at loc, or -1
instruction_index(loc) ==
    LET found == {i \in 0..(Len(instructions) - 1) :
                     /\ instructions[i + 1].location.line = loc.line
                     /\ instructions[i + 1].location.offset = loc.offset}
    IN  IF found = {} THEN -1
        ELSE CHOOSE i \in found : \A j \in found : i <= j

\* the outer loop of jump_forward over the pairs, from the k-th on
RECURSIVE jump_forward_search(_)
jump_forward_search(k) ==
    IF k > Len(jump_locations)
    THEN -1
    ELSE LET jmp == jump_locations[k]
         IN  IF /\ jmp.forward.line = current_instruction.location.line
                /\ jmp.forward.offset = current_instruction.location.offset
                /\ instruction_index(jmp.backward) # -1
             THEN instruction_index(jmp.backward)
             ELSE jump_forward_search(k + 1)

\* the outer loop of jump_backward over the pairs, from the k-th on
RECURSIVE jump_backward_search(_)
jump_backward_search(k) ==
    IF k > Len(jump_locations)
    THEN -1
    ELSE LET jmp == jump_locations[k]
         IN  IF /\ jmp.backward.line = current_instruction.location.line
                /\ jmp.backward.offset = current_instruction.location.offset
                /\ instruction_index(jmp.forward) # -1
             THEN instruction_index(jmp.forward)
             ELSE jump_backward_search(k + 1)

\* mutant: '[' jumps past its ']' whatever the current cell holds
jump_forward_always ==
    LET i == jump_forward_search(1)
    IN  IF i = -1
        THEN [ok |-> FALSE, program_pointer |-> program_pointer,
              error |-> [kind |-> "BracketNotFound", program_pointer |-> program_pointer]]
        ELSE [ok |-> TRUE, program_pointer |-> i]

\* mutant: '[' jumps to the nearest ']' that follows it, nested or not
jump_forward_nearest ==
    IF get_data_value = 0
    THEN LET later == {i \in (program_pointer + 1)..(Len(instructions) - 1) :
                          instructions[i + 1].command = "JumpBackward"}
         IN  IF later = {}
             THEN [ok |-> FALSE, program_pointer |-> program_pointer,
                   error |-> [kind |-> "BracketNotFound", program_pointer |-> program_pointer]]
             ELSE [ok |-> TRUE, program_pointer |-> CHOOSE i \in later : \A j \in later : i <= j]
    ELSE [ok |-> TRUE, program_pointer |-> program_pointer]

\* mutant: a '[' whose pair is not in the table is passed over
jump_forward_not_found_ok ==
    IF get_data_value = 0
    THEN LET i == jump_forward_search(1)
         IN  IF i = -1
             THEN [ok |-> TRUE, program_pointer |-> program_pointer]
             ELSE [ok |-> TRUE, program_pointer |-> i]
    ELSE [ok |-> TRUE, program_pointer |-> program_pointer]

\* BfTape::jump_forward
jump_forward ==
    IF get_data_value = 0
    THEN LET i == jump_forward_search(1)
         IN  IF i = -1
             THEN [ok |-> FALSE, program_pointer |-> program_pointer,
                   error |-> [kind |-> "BracketNotFound", program_pointer |-> program_pointer]]
             ELSE [ok |-> TRUE, program_pointer |-> i]
    ELSE [ok |-> TRUE, program_pointer |-> program_pointer]

\* mutant: ']' lands on the matching '[' itself, not on the instruction after it
jump_backward_onto_bracket ==
    IF get_data_value # 0
    THEN LET i == jump_backward_search(1)
         IN  IF i = -1
             THEN [ok |-> FALSE, program_pointer |-> program_pointer,
                   error |-> [kind |-> "BracketNotFound", program_pointer |-> program_pointer]]
             ELSE [ok |-> TRUE, program_pointer |-> i - 1]
    ELSE [ok |-> TRUE, program_pointer |-> program_pointer]

\* mutant: ']' jumps back whatever the current cell holds
jump_backward_always ==
    LET i == jump_backward_search(1)
    IN  IF i = -1
        THEN [ok |-> FALSE, program_pointer |-> program_pointer,
              error |-> [kind |-> "BracketNotFound", program_pointer |-> program_pointer]]
        ELSE [ok |-> TRUE, program_pointer |-> i]

\* mutant: ']' never jumps back, the run goes on after it
jump_backward_falls_through ==
    [ok |-> TRUE, program_pointer |-> program_pointer]

\* BfTape::jump_backward
jump_backward ==
    IF get_data_value # 0
    THEN LET i == jump_backward_search(1)
         IN  IF i = -1
             THEN [ok |-> FALSE, program_pointer |-> program_pointer,
                   error |-> [kind |-> "BracketNotFound", program_pointer |-> program_pointer]]
             ELSE [ok |-> TRUE, program_pointer |-> i]
    ELSE [ok |-> TRUE, program_pointer |-> program_pointer]

----------------------------------------------------------------------------
(* Operations of the engine *)

\* mutant: a tape_size of 0 is taken as it is, there is no default size
BfTape_new_no_default(tape_size, strategy, format) ==
    /\ pc = "program"
    /\ pc' = "interpreter"
    /\ program_pointer' = 0
    /\ data_pointer' = 0
    /\ alloc_strategy' = strategy
    /\ output_format' = format
    /\ new_tape_size' = tape_size
    /\ tape' = [i \in 1..tape_size |-> 0]
    /\ UNCHANGED <<other_tape, move_result, main_vars, program_vars, read_bytes, written, result,
                   last_read, executed>>

\* BfTape::new(program, tape_size, alloc_strategy, output_format)
BfTape_new(tape_size, strategy, format) ==
    /\ pc = "program"
    /\ pc' = "interpreter"
    /\ program_pointer' = 0
    /\ data_pointer' = 0
    /\ alloc_strategy' = strategy
    /\ output_format' = format
    /\ new_tape_size' = tape_size
    /\ tape' = IF tape_size = 0
               THEN [i \in 1..MAX_TAPE_SIZE |-> 0]
               ELSE [i \in 1..tape_size |-> 0]
    /\ UNCHANGED <<other_tape, move_result, main_vars, program_vars, read_bytes, written, result,
                   last_read, executed>>

\* mutant: the loop goes on after an instruction has returned an error
Running_after_error ==
    /\ pc = "interpreter"
    /\ program_pointer # Len(instructions)

\* the loop condition of interpreter, the run not having returned
Running ==
    /\ pc = "interpreter"
    /\ result.kind = "None"
    /\ program_pointer # Len(instructions)

\* the loop of interpreter fetches the instruction and dispatches on its command
Fetch(command) ==
    /\ Running
    /\ current_instruction.command = command

\* the step that is being executed, kept as history
Executing ==
    [done |-> TRUE, program_pointer |-> program_pointer,
     data_pointer |-> data_pointer, cell |-> get_data_value]

\* mutant: the pointer is incremented by the command and again by the loop
Advance_twice(r, pointer) ==
    /\ program_pointer' = IF r.ok THEN pointer + 2 ELSE program_pointer
    /\ result' = IF r.ok THEN result ELSE r.error
    /\ executed' = Executing

\* `?` on the Result of a command: the error is returned, else the pointer advances
Advance(r, pointer) ==
    /\ program_pointer' = IF r.ok THEN pointer + 1 ELSE program_pointer
    /\ result' = IF r.ok THEN result ELSE r.error
    /\ executed' = Executing

\* BfTape::command_move_pointer_forward
command_move_pointer_forward ==
    /\ Fetch("IncDataPointer")
    /\ LET r == move_data_pointer_forward
       IN  /\ (Len(r.tape) > Len(tape) => Len(r.tape) <= MaxTapeLen)
           /\ tape' = r.tape
           /\ data_pointer' = r.data_pointer
           /\ Advance(r, program_pointer)
    /\ UNCHANGED <<step_frame, last_read, alloc_strategy, output_format, read_bytes, written>>

\* BfTape::command_move_pointer_back
command_move_pointer_back ==
    /\ Fetch("DecDataPointer")
    /\ LET r == move_data_pointer_back
       IN  /\ data_pointer' = r.data_pointer
           /\ Advance(r, program_pointer)
    /\ UNCHANGED <<step_frame, last_read, tape, alloc_strategy, output_format, read_bytes, written>>

\* BfTape::command_inc_value
command_inc_value ==
    /\ Fetch("IncValue")
    /\ LET r == increment_data_value
       IN  /\ tape' = r.tape
           /\ Advance(r, program_pointer)
    /\ UNCHANGED <<step_frame, last_read, data_pointer, alloc_strategy, output_format,
                   read_bytes, written>>

\* BfTape::command_dec_value
command_dec_value ==
    /\ Fetch("DecValue")
    /\ LET r == decrement_data_value
       IN  /\ tape' = r.tape
           /\ Advance(r, program_pointer)
    /\ UNCHANGED <<step_frame, last_read, data_pointer, alloc_strategy, output_format,
                   read_bytes, written>>

\* BfTape::command_output_value
command_output_value ==
    /\ Fetch("OutputValue")
    /\ \E io_ok \in BOOLEAN :
          LET r == output_value(io_ok)
          IN  /\ Len(r.written) <= MaxWritten
              /\ written' = r.written
              /\ Advance(r, program_pointer)
    /\ UNCHANGED <<step_frame, last_read, tape, data_pointer, alloc_strategy, output_format,
                   read_bytes>>

\* BfTape::command_input_value
command_input_value ==
    /\ Fetch("InputValue")
    /\ \E outcome \in ReadOutcomes :
          LET r == input_value(outcome)
          IN  /\ Len(r.read_bytes) <= MaxRead
              /\ tape' = r.tape
              /\ read_bytes' = r.read_bytes
              /\ last_read' = outcome.kind
              /\ Advance(r, program_pointer)
    /\ UNCHANGED <<step_frame, data_pointer, alloc_strategy, output_format, written>>

\* BfTape::command_jump_forward
command_jump_forward ==
    /\ Fetch("JumpForward")
    /\ LET r == jump_forward
       IN  Advance(r, r.program_pointer)
    /\ UNCHANGED <<step_frame, last_read, tape, data_pointer, alloc_strategy, output_format,
                   read_bytes, written>>

\* mutant: ']' drops the first pair of the program's table once it has jumped
command_jump_backward_consuming ==
    /\ Fetch("JumpBackward")
    /\ LET r == jump_backward
       IN  /\ Advance(r, r.program_pointer)
           /\ jump_locations' = IF r.ok /\ get_data_value # 0 /\ jump_locations # <<>>
                                THEN Tail(jump_locations)
                                ELSE jump_locations
    /\ UNCHANGED <<pc, content, instructions, validate_result, validate_calls, other_tape,
                   move_result,
                   main_vars, new_tape_size, last_read, tape, data_pointer, alloc_strategy,
                   output_format, read_bytes, written>>

\* BfTape::command_jump_backward
command_jump_backward ==
    /\ Fetch("JumpBackward")
    /\ LET r == jump_backward
       IN  Advance(r, r.program_pointer)
    /\ UNCHANGED <<step_frame, last_read, tape, data_pointer, alloc_strategy, output_format,
                   read_bytes, written>>

\* mutant: a program with no instruction is an error of the program pointer
interpreter_return_empty_is_error ==
    /\ pc = "interpreter"
    /\ result.kind = "None"
    /\ program_pointer = Len(instructions)
    /\ result' = IF Len(instructions) = 0
                 THEN [kind |-> "ProgramPtrMovedAfterEnd", program_pointer |-> 0]
                 ELSE [kind |-> "Ok"]
    /\ UNCHANGED <<step_frame, last_read, tape, data_pointer, program_pointer, alloc_strategy,
                   output_format, read_bytes, written, executed>>

\* BfTape::interpreter leaves its loop and returns Ok(())
interpreter_return ==
    /\ pc = "interpreter"
    /\ result.kind = "None"
    /\ program_pointer = Len(instructions)
    /\ result' = [kind |-> "Ok"]
    /\ UNCHANGED <<step_frame, last_read, tape, data_pointer, program_pointer, alloc_strategy,
                   output_format, read_bytes, written, executed>>

AllocStrategies == {"TapeCanGrow", "TapeIsFixed"}
OutputFormats == {"AsciiOutput", "BinaryOutput"}

Init == InitWith(ProgramTexts)

Next ==
    \/ BfProgram_new
    \/ validate
    \/ \E tape_size \in 1..MaxTapeSize, strategy \in AllocStrategies, format \in OutputFormats :
          BfTape_new(tape_size, strategy, format)
    \/ command_move_pointer_forward
    \/ command_move_pointer_back
    \/ command_inc_value
    \/ command_dec_value
    \/ command_output_value
    \/ command_input_value
    \/ command_jump_forward
    \/ command_jump_backward
    \/ interpreter_return

\* a program is parsed, validated or not, and run on a tape to its return
Spec == Init /\ [][Next]_vars

----------------------------------------------------------------------------
(* The program model alone *)

InitProgram == InitWith(Texts)

NextProgram == BfProgram_new \/ validate

\* the program model alone: parse any text, then validate it
SpecProgram == InitProgram /\ [][NextProgram]_vars

----------------------------------------------------------------------------
(* Two tapes bound to one program, stepped in any interleaving *)

\* the fields of the tape that is being stepped, with its reader and writer
ThisTape ==
    [bound |-> TRUE, new_tape_size |-> new_tape_size, tape |-> tape,
     data_pointer |-> data_pointer, program_pointer |-> program_pointer,
     alloc_strategy |-> alloc_strategy, output_format |-> output_format,
     read_bytes |-> read_bytes, written |-> written, result |-> result,
     last_read |-> last_read, executed |-> executed]

\* BfTape::new on a validated program
shared_tape_new ==
    /\ validate_result.kind = "Ok"
    /\ \E tape_size \in 1..MaxTapeSize, strategy \in AllocStrategies, format \in OutputFormats :
          BfTape_new(tape_size, strategy, format)

\* BfTape::new once more, on the same &BfProgram
second_tape_new ==
    /\ pc = "interpreter"
    /\ ~other_tape.bound
    /\ \E tape_size \in 1..MaxTapeSize, strategy \in AllocStrategies, format \in OutputFormats :
          other_tape' =
              [bound |-> TRUE, new_tape_size |-> tape_size,
               tape |-> [i \in 1..tape_size |-> 0],
               data_pointer |-> 0, program_pointer |-> 0,
               alloc_strategy |-> strategy, output_format |-> format,
               read_bytes |-> <<>>, written |-> <<>>, result |-> [kind |-> "None"],
               last_read |-> "None",
               executed |-> [done |-> FALSE, program_pointer |-> 0,
                             data_pointer |-> 0, cell |-> 0]]
    /\ UNCHANGED <<pc, program_vars, tape_vars, main_vars, move_result>>

\* the caller turns to the other tape: the next steps are steps of that one
switch_tape ==
    /\ pc = "interpreter"
    /\ other_tape.bound
    /\ other_tape' = ThisTape
    /\ new_tape_size' = other_tape.new_tape_size
    /\ tape' = other_tape.tape
    /\ data_pointer' = other_tape.data_pointer
    /\ program_pointer' = other_tape.program_pointer
    /\ alloc_strategy' = other_tape.alloc_strategy
    /\ output_format' = other_tape.output_format
    /\ read_bytes' = other_tape.read_bytes
    /\ written' = other_tape.written
    /\ result' = other_tape.result
    /\ last_read' = other_tape.last_read
    /\ executed' = other_tape.executed
    /\ UNCHANGED <<pc, program_vars, main_vars, move_result>>

\* the programs with loops, and one that reads and writes
SharedTexts == LoopScenarios \cup {<<",", ".">>}

InitShared == InitWith(SharedTexts)

NextShared ==
    \/ BfProgram_new
    \/ validate
    \/ shared_tape_new
    \/ second_tape_new
    \/ switch_tape
    \/ command_move_pointer_forward
    \/ command_move_pointer_back
    \/ command_inc_value
    \/ command_dec_value
    \/ command_output_value
    \/ command_input_value
    \/ command_jump_forward
    \/ command_jump_backward
    \/ interpreter_return

\* two tapes are constructed on one validated program and stepped in turn
SpecShared == InitShared /\ [][NextShared]_vars

----------------------------------------------------------------------------
(* The driver: main and run_bft of the bft binary *)

\* BfProgram::from_file fails (fs::read_to_string) and `?` returns the error
run_bft_from_file_err ==
    /\ pc = "start"
    /\ pc' = "returned"
    /\ run_bft_result' = [kind |-> "Err", error |-> "Load"]
    /\ UNCHANGED <<program_vars, tape_vars, other_tape, move_result, exit_status>>

\* run_bft calls program.validate() once
run_bft_validate ==
    /\ validate_calls = 0
    /\ validate

\* the Err arm of the match on program.validate()
run_bft_validate_err ==
    /\ pc = "program"
    /\ validate_result.kind = "Extra"
    /\ pc' = "returned"
    /\ run_bft_result' = [kind |-> "Err", error |-> "Extra"]
    /\ UNCHANGED <<program_vars, tape_vars, other_tape, move_result, exit_status>>

\* mutant: the tape is created whatever validate returned, or before it is called
run_bft_tape_new_unchecked ==
    \E cells \in 1..MaxTapeSize, strategy \in AllocStrategies, format \in OutputFormats :
       BfTape_new(cells, strategy, format)

\* the Ok arm: BfTape::new with the arguments of the command line, where
\* --cells takes a count of 1 or more
run_bft_tape_new ==
    /\ validate_result.kind = "Ok"
    /\ \E cells \in 1..MaxTapeSize, strategy \in AllocStrategies, format \in OutputFormats :
          BfTape_new(cells, strategy, format)

\* the match on tape.interpreter(..): an error is printed, and run_bft returns Ok(())
run_bft_return ==
    /\ pc = "interpreter"
    /\ result.kind # "None"
    /\ pc' = "returned"
    /\ run_bft_result' = [kind |-> "Ok"]
    /\ UNCHANGED <<program_vars, tape_vars, other_tape, move_result, exit_status>>

\* main: std::process::exit(1) on Err from run_bft, std::process::exit(0) otherwise
main_exit ==
    /\ pc = "returned"
    /\ pc' = "exited"
    /\ exit_status' = [kind |-> "Exit",
                       code |-> IF run_bft_result.kind = "Err" THEN 1 ELSE 0]
    /\ UNCHANGED <<program_vars, tape_vars, other_tape, move_result, run_bft_result>>

InitMain == InitWith(ProgramTexts)

NextMain ==
    \/ run_bft_from_file_err
    \/ BfProgram_new
    \/ run_bft_validate
    \/ run_bft_validate_err
    \/ run_bft_tape_new
    \/ command_move_pointer_forward
    \/ command_move_pointer_back
    \/ command_inc_value
    \/ command_dec_value
    \/ command_output_value
    \/ command_input_value
    \/ command_jump_forward
    \/ command_jump_backward
    \/ interpreter_return
    \/ run_bft_return
    \/ main_exit

\* one run of the bft binary on a program file
SpecMain == InitMain /\ [][NextMain]_vars

----------------------------------------------------------------------------
(* The counting loop: k times '+', then "[>+<-]", run to its end *)

CountingLoop(k) == [i \in 1..k |-> "+"] \o <<"[", ">", "+", "<", "-", "]">>

\* the same loop entered with the largest count, which one '-' puts in cell 0
CountingDown == <<"-", "[", ">", "+", "<", "-", "]">>

CountingLoops == {CountingLoop(k) : k \in 0..MaxLeadingPlus} \cup {CountingDown}

InitCounting == InitWith(CountingLoops)

NextCounting ==
    \/ BfProgram_new
    \/ validate
    \/ \E tape_size \in 1..MaxTapeSize, strategy \in AllocStrategies, format \in OutputFormats :
          BfTape_new(tape_size, strategy, format)
    \/ command_move_pointer_forward
    \/ command_move_pointer_back
    \/ command_inc_value
    \/ command_dec_value
    \/ command_jump_forward
    \/ command_jump_backward
    \/ interpreter_return

\* interpreter is a sequential loop: a step that can be taken is taken
SpecCounting == InitCounting /\ [][NextCounting]_vars /\ WF_vars(NextCounting)

----------------------------------------------------------------------------
(* The engine on the tape of the crate's tests *)

\* the tape size the tests of bft_interp construct their tapes with
TEST_TAPE_SIZE == 100

InitTests == InitWith(ProgramTexts)

NextTests ==
    \/ BfProgram_new
    \/ validate
    \/ \E strategy \in AllocStrategies, format \in OutputFormats :
          BfTape_new(TEST_TAPE_SIZE, strategy, format)
    \/ command_move_pointer_forward
    \/ command_move_pointer_back
    \/ command_inc_value
    \/ command_dec_value
    \/ command_output_value
    \/ command_input_value
    \/ command_jump_forward
    \/ command_jump_backward
    \/ interpreter_return

\* a program is parsed, validated or not, and run on a tape of 100 cells
SpecTests == InitTests /\ [][NextTests]_vars

----------------------------------------------------------------------------
(* The construction of tapes of every size, the default one included *)

\* tape_size 0 asks for the default size
NewTapeSizes == {0} \cup (1..MaxTapeSize) \cup {TEST_TAPE_SIZE}

InitNew == InitWith(Scenarios)

NextNew ==
    \/ BfProgram_new
    \/ validate
    \/ \E tape_size \in NewTapeSizes, strategy \in AllocStrategies, format \in OutputFormats :
          BfTape_new(tape_size, strategy, format)

\* a program is parsed, validated or not, and a tape is constructed for it
SpecNew == InitNew /\ [][NextNew]_vars

----------------------------------------------------------------------------
(* The program pointer moved by hand, as the tests of bft_interp do *)

\* mutant: the end of the program is tested one place too late
move_program_pointer_forward_to_end ==
    /\ pc = "interpreter"
    /\ move_result.kind # "Panic"
    /\ Len(instructions) # 0
    /\ IF program_pointer = Len(instructions)
       THEN /\ move_result' = [kind |-> "ProgramPtrMovedAfterEnd",
                               program_pointer |-> program_pointer]
            /\ program_pointer' = program_pointer
       ELSE /\ move_result' = [kind |-> "Ok"]
            /\ program_pointer' = program_pointer + 1
    /\ UNCHANGED <<pc, program_vars, other_tape, main_vars, new_tape_size, last_read, tape,
                   data_pointer, alloc_strategy, output_format, read_bytes, written, result,
                   executed>>

\* BfTape::move_program_pointer_forward. With no instruction `len() - 1`
\* underflows: a build with overflow checks panics, a build without them
\* wraps to usize::MAX, the test fails and the pointer moves on
move_program_pointer_forward ==
    /\ pc = "interpreter"
    /\ move_result.kind # "Panic"
    /\ IF Len(instructions) = 0
       THEN \/ /\ move_result' = [kind |-> "Panic"]
               /\ program_pointer' = program_pointer
            \/ /\ program_pointer < MaxProgLen
               /\ move_result' = [kind |-> "Ok"]
               /\ program_pointer' = program_pointer + 1
       ELSE IF program_pointer = Len(instructions) - 1
            THEN /\ move_result' = BfError("ProgramPtrMovedAfterEnd")
                 /\ program_pointer' = program_pointer
            ELSE /\ move_result' = [kind |-> "Ok"]
                 /\ program_pointer' = program_pointer + 1
    /\ UNCHANGED <<pc, program_vars, other_tape, main_vars, new_tape_size, last_read, tape,
                   data_pointer, alloc_strategy, output_format, read_bytes, written, result,
                   executed>>

InitPointer == InitWith(ProgramTexts)

NextPointer ==
    \/ BfProgram_new
    \/ validate
    \/ \E tape_size \in (1..MaxTapeSize) \cup {TEST_TAPE_SIZE},
          strategy \in AllocStrategies, format \in OutputFormats :
          BfTape_new(tape_size, strategy, format)
    \/ move_program_pointer_forward

\* a tape is constructed and its program pointer is moved forward call by call
SpecPointer == InitPointer /\ [][NextPointer]_vars

----------------------------------------------------------------------------
(* Bracket structure of the instruction sequence, stated without validate *)

IsForward(k) == instructions[k].command = "JumpForward"
IsBackward(k) == instructions[k].command = "JumpBackward"

\* the numbers of '[' and of ']' among the instructions a..b (1-based)
Fwd(a, b) == Cardinality({k \in a..b : IsForward(k)})
Bwd(a, b) == Cardinality({k \in a..b : IsBackward(k)})

NumInstructions == Len(instructions)

\* no prefix has more ']' than '[' and the totals agree
Balanced ==
    /\ Fwd(1, NumInstructions) = Bwd(1, NumInstructions)
    /\ \A n \in 0..NumInstructions : Bwd(1, n) <= Fwd(1, n)

\* the ']' at j closes the '[' at k: j is the first place where k..j is balanced
Closes(k, j) ==
    /\ IsForward(k)
    /\ IsBackward(j)
    /\ Fwd(k, j) = Bwd(k, j)
    /\ \A m \in k..(j - 1) : Fwd(k, m) > Bwd(k, m)

MatchingBackward(k) == CHOOSE j \in (k + 1)..NumInstructions : Closes(k, j)
MatchingForward(j) == CHOOSE k \in 1..(j - 1) : Closes(k, j)

\* a '[' that no later ']' closes
UnmatchedForward(k) ==
    /\ IsForward(k)
    /\ \A j \in (k + 1)..NumInstructions : ~Closes(k, j)

\* a ']' met while no '[' is open
ExtraBackward(n) == IsBackward(n) /\ Bwd(1, n) > Fwd(1, n)

Validated == validate_result.kind = "Ok"
Returned == pc = "interpreter" /\ result.kind # "None"
Failed == pc = "interpreter" /\ result.kind \notin {"None", "Ok"}
ExecutedCommand == instructions[executed.program_pointer + 1].command

----------------------------------------------------------------------------
(* C1: in every state of a run on a validated program, whatever the tape   *)
(* size, the allocation strategy and the input, the data pointer is below  *)
(* the tape length and the program pointer is at most the instruction      *)
(* count.                                                                  *)
C1_PointersInRange ==
    (pc = "interpreter" /\ Validated) =>
        /\ 0 <= data_pointer
        /\ data_pointer < Len(tape)
        /\ 0 <= program_pointer
        /\ program_pointer <= NumInstructions

\* a growing tape has been extended and the run has halted on its last cell
C1_Witness ==
    /\ pc = "interpreter"
    /\ Validated
    /\ executed.done
    /\ alloc_strategy = "TapeCanGrow"
    /\ Len(tape) > MaxTapeSize
    /\ data_pointer = Len(tape) - 1
    /\ program_pointer = NumInstructions

(* C2: interpreter executes one instruction per step until the program     *)
(* pointer equals the instruction count and then returns Ok; an error of   *)
(* an instruction is returned by the very step that raised it, with the    *)
(* program pointer still on that instruction, and once interpreter has     *)
(* returned nothing is executed, read or written any more.                 *)
C2_RunUntilHaltOrError ==
    [][ /\ Returned =>
              UNCHANGED <<tape, data_pointer, program_pointer, read_bytes, written,
                          result, executed>>
        /\ (pc = "interpreter" /\ result.kind = "None" /\ result'.kind = "Ok") =>
              /\ program_pointer = NumInstructions
              /\ UNCHANGED <<tape, data_pointer, program_pointer, read_bytes, written,
                             executed>>
        /\ (pc = "interpreter" /\ result.kind = "None"
                /\ program_pointer = NumInstructions) => result'.kind = "Ok"
        /\ Running =>
              /\ executed' = Executing
              /\ result'.kind # "Ok"
              /\ result'.kind = "None" => program_pointer' \in 0..NumInstructions
              /\ result'.kind # "None" =>
                    /\ program_pointer' = program_pointer
                    /\ result'.program_pointer = program_pointer
      ]_vars

\* a run has failed with instructions left that were never executed
C2_Witness ==
    /\ Failed
    /\ executed.done
    /\ executed.program_pointer = program_pointer
    /\ program_pointer + 1 < NumInstructions
    /\ written # <<>>

(* C3: a run on a program that validate accepted never returns             *)
(* BracketNotFound.                                                        *)
C3_NoBracketNotFound ==
    (pc = "interpreter" /\ Validated) => result.kind # "BracketNotFound"

\* a jump of a validated program has been taken
C3_Witness ==
    /\ pc = "interpreter"
    /\ Validated
    /\ executed.done
    /\ ExecutedCommand \in {"JumpForward", "JumpBackward"}
    /\ program_pointer # executed.program_pointer + 1
    /\ result.kind = "None"

(* C4: executing '[' at index p of a validated program moves the program   *)
(* pointer just past the syntactically matching ']' when the current cell  *)
(* is zero, and to p + 1 when it is not.                                   *)
C4_JumpForward ==
    [][ (Fetch("JumpForward") /\ Validated) =>
            /\ result' = result
            /\ program_pointer' =
                  IF get_data_value = 0
                  THEN (MatchingBackward(program_pointer + 1) - 1) + 1
                  ELSE program_pointer + 1
      ]_vars

\* a '[' on a zero cell has jumped over a nested loop
C4_Witness ==
    /\ pc = "interpreter"
    /\ Validated
    /\ executed.done
    /\ ExecutedCommand = "JumpForward"
    /\ executed.cell = 0
    /\ program_pointer = MatchingBackward(executed.program_pointer + 1)
    /\ Fwd(executed.program_pointer + 2, program_pointer) > 0

(* C5: executing ']' at index p of a validated program moves the program   *)
(* pointer to the instruction after the syntactically matching '[' when    *)
(* the current cell is non-zero, and to p + 1 when it is zero.             *)
C5_JumpBackward ==
    [][ (Fetch("JumpBackward") /\ Validated) =>
            /\ result' = result
            /\ program_pointer' =
                  IF get_data_value # 0
                  THEN (MatchingForward(program_pointer + 1) - 1) + 1
                  ELSE program_pointer + 1
      ]_vars

\* a ']' on a non-zero cell has jumped back over a nested loop
C5_Witness ==
    /\ pc = "interpreter"
    /\ Validated
    /\ executed.done
    /\ ExecutedCommand = "JumpBackward"
    /\ executed.cell # 0
    /\ program_pointer = MatchingForward(executed.program_pointer + 1)
    /\ Bwd(program_pointer + 1, executed.program_pointer) > 0

(* C6: validate returns Ok exactly when the brackets are balanced: as many *)
(* '[' as ']' and no prefix with more ']' than '['.                        *)
C6_ValidateIffBalanced ==
    validate_calls >= 1 => (Validated <=> Balanced)

\* a mis-nested program with equal counts has been rejected
C6_Witness ==
    /\ validate_calls >= 1
    /\ validate_result.kind = "Extra"
    /\ Fwd(1, NumInstructions) = Bwd(1, NumInstructions)
    /\ Fwd(1, NumInstructions) > 0

(* C7: after the first validate of a parsed program has succeeded the      *)
(* table holds as many pairs as there are '[' and as there are ']'; a      *)
(* program without brackets, the empty one included, validates with an     *)
(* empty table.                                                            *)
C7_PairCount ==
    /\ (validate_calls = 1 /\ Validated) =>
          /\ Len(jump_locations) = Fwd(1, NumInstructions)
          /\ Len(jump_locations) = Bwd(1, NumInstructions)
    /\ (validate_calls = 1 /\ Fwd(1, NumInstructions) = 0 /\ Bwd(1, NumInstructions) = 0) =>
          /\ Validated
          /\ jump_locations = <<>>

\* a program with two loops has been validated once
C7_Witness ==
    /\ validate_calls = 1
    /\ Validated
    /\ Len(jump_locations) = 2

(* C8: validate is idempotent: however often it has been called, the table *)
(* is the one that a single validate of the parsed program gives.          *)
C8_ValidateIdempotent ==
    validate_calls >= 1 =>
        jump_locations = validate_scan(instructions, 1, <<>>, <<>>).jump_locations

(* C9: when a ']' is met while no '[' is open validate fails with the      *)
(* location of that ']', the first such one, and records no pair beyond    *)
(* it; for the text []] the location is line 1, offset 3.                  *)
C9_ExtraBackward ==
    /\ \A n \in 1..NumInstructions :
          (/\ validate_calls >= 1
           /\ ExtraBackward(n)
           /\ \A m \in 1..(n - 1) : ~ExtraBackward(m)) =>
              /\ validate_result.kind = "Extra"
              /\ validate_result.instruction = instructions[n]
              /\ validate_calls = 1 => Len(jump_locations) = Bwd(1, n - 1)
    /\ (validate_calls >= 1 /\ content = <<"[", "]", "]">>) =>
          /\ validate_result.kind = "Extra"
          /\ validate_result.instruction.location = BfLocation(1, 3)

\* an unopened ']' has been reported and the loop that follows it was not recorded
C9_Witness ==
    /\ validate_calls = 1
    /\ validate_result.kind = "Extra"
    /\ \E n \in 1..NumInstructions :
          /\ ExtraBackward(n)
          /\ validate_result.instruction = instructions[n]
          /\ \E k, j \in (n + 1)..NumInstructions : Closes(k, j)
          /\ jump_locations = <<>>

(* C10: when the scan ends with '[' still open validate fails with the     *)
(* location of the last '[' that is unmatched, not of the first.           *)
C10_UnmatchedForward ==
    (/\ validate_calls >= 1
     /\ \A n \in 1..NumInstructions : ~ExtraBackward(n)
     /\ Fwd(1, NumInstructions) > Bwd(1, NumInstructions)) =>
        /\ validate_result.kind = "Extra"
        /\ \E k \in 1..NumInstructions :
              /\ UnmatchedForward(k)
              /\ \A j \in (k + 1)..NumInstructions : ~UnmatchedForward(j)
              /\ validate_result.instruction = instructions[k]

\* two '[' are left open and the later one has been reported
C10_Witness ==
    /\ validate_calls >= 1
    /\ validate_result.kind = "Extra"
    /\ \A n \in 1..NumInstructions : ~ExtraBackward(n)
    /\ \E k1, k2 \in 1..NumInstructions :
          /\ k1 < k2
          /\ UnmatchedForward(k1)
          /\ UnmatchedForward(k2)
          /\ validate_result.instruction = instructions[k2]

----------------------------------------------------------------------------
\* the number of '[' before the k-th instruction that are still open there
OpenAround(k) == Fwd(1, k - 1) - Bwd(1, k - 1)

(* C11: every pair recorded by a successful validate is a true syntactic   *)
(* match: its forward location is that of a '[' and its backward location  *)
(* that of the ']' closing it, and its depth is the number of '[' still    *)
(* open around the pair. For "><+-[.]" the table is the single pair with   *)
(* forward 1:5 and backward 1:7.                                           *)
C11_PairsAreMatches ==
    (validate_calls >= 1 /\ Validated) =>
        /\ \A p \in 1..Len(jump_locations) :
              \E k, j \in 1..NumInstructions :
                 /\ k < j
                 /\ Closes(k, j)
                 /\ jump_locations[p].forward = instructions[k].location
                 /\ jump_locations[p].backward = instructions[j].location
                 /\ jump_locations[p].depth = OpenAround(k)
        /\ (validate_calls = 1 /\ content = <<">", "<", "+", "-", "[", ".", "]">>) =>
              jump_locations = <<[depth |-> 0,
                                  forward |-> [line |-> 1, offset |-> 5],
                                  backward |-> [line |-> 1, offset |-> 7]]>>

\* a successful validate has recorded a pair that lies inside another loop
C11_Witness ==
    /\ validate_calls = 1
    /\ Validated
    /\ \E p \in 1..Len(jump_locations) : jump_locations[p].depth >= 1

(* C12: validate, whether it succeeds or fails, leaves the instruction     *)
(* sequence as BfProgram::new parsed it from the text.                     *)
C12_ValidateKeepsInstructions ==
    validate_calls >= 1 => instructions = program_instructions(lines(content), 1)

\* a failed validate that had already recorded a pair, on a program whose
\* instructions are still all there
C12_Witness ==
    /\ validate_calls >= 1
    /\ validate_result.kind = "Extra"
    /\ jump_locations # <<>>
    /\ NumInstructions >= 3
    /\ instructions = program_instructions(lines(content), 1)

----------------------------------------------------------------------------
(* C13: on a TapeIsFixed tape '>' at the last index fails with             *)
(* DataPtrMovedAfterEnd and moves nothing (so on a tape of one cell '>' at *)
(* data pointer 0 fails); at a smaller index it succeeds and the data      *)
(* pointer goes up by one.                                                 *)
C13_FixedForward ==
    [][(Fetch("IncDataPointer") /\ alloc_strategy = "TapeIsFixed") =>
          IF data_pointer = Len(tape) - 1
          THEN /\ result'.kind = "DataPtrMovedAfterEnd"
               /\ data_pointer' = data_pointer
               /\ tape' = tape
          ELSE /\ result'.kind = "None"
               /\ data_pointer' = data_pointer + 1
               /\ tape' = tape]_vars

\* on a fixed tape a '>' has moved the data pointer to the last cell and
\* the next '>' has failed there
C13_Witness ==
    /\ pc = "interpreter"
    /\ alloc_strategy = "TapeIsFixed"
    /\ result.kind = "DataPtrMovedAfterEnd"
    /\ data_pointer >= 1
    /\ data_pointer = Len(tape) - 1

(* C14: on a TapeCanGrow tape '>' never fails; at the last index exactly   *)
(* one zero cell is appended and the data pointer advances onto it, at a   *)
(* smaller index the tape is left as it is.                                *)
C14_GrowForward ==
    [][(Fetch("IncDataPointer") /\ alloc_strategy = "TapeCanGrow") =>
          /\ result'.kind = "None"
          /\ data_pointer' = data_pointer + 1
          /\ tape' = IF data_pointer = Len(tape) - 1 THEN Append(tape, 0) ELSE tape]_vars

\* a '>' at the last index has grown the tape by a zero cell under the pointer
C14_Witness ==
    /\ pc = "interpreter"
    /\ alloc_strategy = "TapeCanGrow"
    /\ executed.done
    /\ ExecutedCommand = "IncDataPointer"
    /\ result.kind = "None"
    /\ Len(tape) > MaxTapeSize
    /\ data_pointer = Len(tape) - 1
    /\ get_data_value = 0

(* C15: under both strategies '<' at data pointer 0 fails with             *)
(* DataPtrMovedBeforeStart and leaves the data pointer at 0; at a larger   *)
(* index it succeeds and the data pointer goes down by one.                *)
C15_Back ==
    [][Fetch("DecDataPointer") =>
          /\ tape' = tape
          /\ IF data_pointer = 0
             THEN /\ result'.kind = "DataPtrMovedBeforeStart"
                  /\ data_pointer' = 0
             ELSE /\ result'.kind = "None"
                  /\ data_pointer' = data_pointer - 1]_vars

\* a '<' has failed at data pointer 0 on a tape that can grow
C15_Witness ==
    /\ pc = "interpreter"
    /\ alloc_strategy = "TapeCanGrow"
    /\ result.kind = "DataPtrMovedBeforeStart"
    /\ ExecutedCommand = "DecDataPointer"
    /\ data_pointer = 0

----------------------------------------------------------------------------
\* on every value of a cell the decrement undoes the increment and conversely
IncDecRoundTrip ==
    \A v \in 0..255 :
       /\ inc(v) \in 0..255
       /\ dec(v) \in 0..255
       /\ dec(inc(v)) = v
       /\ inc(dec(v)) = v

(* C16: '+' and '-' never fail and wrap modulo 256: '+' turns 255 into 0   *)
(* and any other value v into v + 1 (a fresh cell becomes 1), '-' turns 0  *)
(* into 255 and any other v into v - 1; only the current cell changes, and *)
(* '-' undoes '+' on every value.                                          *)
C16_IncDecWrap ==
    [][/\ IncDecRoundTrip
       /\ Fetch("IncValue") =>
             /\ result'.kind = "None"
             /\ data_pointer' = data_pointer
             /\ tape' = [tape EXCEPT ![data_pointer + 1] = IF @ = 255 THEN 0 ELSE @ + 1]
       /\ Fetch("DecValue") =>
             /\ result'.kind = "None"
             /\ data_pointer' = data_pointer
             /\ tape' = [tape EXCEPT ![data_pointer + 1] = IF @ = 0 THEN 255 ELSE @ - 1]]_vars

\* a '+' has just turned a cell holding 255 into 0
C16_Witness ==
    /\ pc = "interpreter"
    /\ executed.done
    /\ ExecutedCommand = "IncValue"
    /\ executed.cell = 255
    /\ program_pointer = executed.program_pointer + 1
    /\ get_data_value = 0

----------------------------------------------------------------------------
(* C17: a ',' executed when the input is exhausted is not an error: the    *)
(* current cell is set to 255, nothing is consumed and the program pointer *)
(* advances by one.                                                        *)
C17_InputAtEof ==
    [][(Fetch("InputValue") /\ last_read' = "Eof") =>
          /\ result'.kind = "None"
          /\ tape' = [tape EXCEPT ![data_pointer + 1] = 255]
          /\ data_pointer' = data_pointer
          /\ read_bytes' = read_bytes
          /\ program_pointer' = program_pointer + 1]_vars

\* the input ran out after a byte had been read from it, and the ',' that
\* met its end has set the cell to 255 and gone on
C17_Witness ==
    /\ pc = "interpreter"
    /\ executed.done
    /\ ExecutedCommand = "InputValue"
    /\ last_read = "Eof"
    /\ read_bytes # <<>>
    /\ result.kind = "None"
    /\ program_pointer = executed.program_pointer + 1
    /\ get_data_value = 255

(* C18: a ',' executed while input remains consumes exactly one byte, the  *)
(* next one of the input, and stores it in the current cell; no other      *)
(* command consumes input. Reading the input 55, 11, 22 into three         *)
(* consecutive cells leaves 55, 11, 22 in them.                            *)
C18_InputInOrder ==
    [][/\ (Fetch("InputValue") /\ last_read' = "Byte") =>
             /\ result'.kind = "None"
             /\ Len(read_bytes') = Len(read_bytes) + 1
             /\ SubSeq(read_bytes', 1, Len(read_bytes)) = read_bytes
             /\ tape' = [tape EXCEPT ![data_pointer + 1] = read_bytes'[Len(read_bytes')]]
       /\ ~Fetch("InputValue") => read_bytes' = read_bytes
       /\ (/\ content = <<",", ">", ",", ">", ",">>
           /\ program_pointer' = NumInstructions
           /\ read_bytes' = <<55, 11, 22>>) =>
             SubSeq(tape', 1, 3) = <<55, 11, 22>>]_vars

\* ",>,>," has read 55, 11, 22 into the first three cells and returned
C18_Witness ==
    /\ content = <<",", ">", ",", ">", ",">>
    /\ result.kind = "Ok"
    /\ read_bytes = <<55, 11, 22>>
    /\ SubSeq(tape, 1, 3) = <<55, 11, 22>>

----------------------------------------------------------------------------
\* the decimal digits of a value below 1000 as ASCII bytes, '0' being 48
DecimalDigits(v) ==
    IF v >= 100 THEN <<48 + (v \div 100), 48 + ((v \div 10) % 10), 48 + (v % 10)>>
    ELSE IF v >= 10 THEN <<48 + (v \div 10), 48 + (v % 10)>>
    ELSE <<48 + v>>

----------------------------------------------------------------------------
\* a run is about to start on a validated program and a tape of two cells or more
CountingStart ==
    /\ pc = "interpreter"
    /\ Validated
    /\ ~executed.done
    /\ result.kind = "None"
    /\ Len(tape) >= 2

\* the count the loop is entered with: the number of leading '+', or 255
\* after a leading '-'
LoopCount == IF content = CountingDown THEN 255 ELSE Len(content) - 6

\* the run has halted with cell 0 empty and the count in cell 1
CountingDone ==
    /\ result.kind = "Ok"
    /\ program_pointer = NumInstructions
    /\ Len(tape) >= 2
    /\ tape[1] = 0
    /\ tape[2] = LoopCount

(* C21: the validated program of k leading '+' followed by "[>+<-]"        *)
(* (k = 3 is "+++[>+<-]"), started on an all-zero tape of at least two     *)
(* cells, eventually halts with result Ok, the program pointer at the      *)
(* instruction count, cell 0 holding 0 and cell 1 holding k; entered with  *)
(* 255 in cell 0 the loop halts with 255 in cell 1.                        *)
C21_CountingLoopHalts == CountingStart ~> CountingDone

\* "+++[>+<-]" has halted with 0 in cell 0 and 3 in cell 1
C21_Witness ==
    /\ content = <<"+", "+", "+", "[", ">", "+", "<", "-", "]">>
    /\ Validated
    /\ result.kind = "Ok"
    /\ program_pointer = 9
    /\ Len(tape) >= 2
    /\ tape[1] = 0
    /\ tape[2] = 3

----------------------------------------------------------------------------
\* the command of the instruction a run can fail at with each kind of error
FailingCommands(kind) ==
    IF kind = "DataPtrMovedBeforeStart" THEN {"DecDataPointer"}
    ELSE IF kind = "DataPtrMovedAfterEnd" THEN {"IncDataPointer"}
    ELSE {"OutputValue", "InputValue"}

(* C22: when a run has failed with DataPtrMovedBeforeStart,                *)
(* DataPtrMovedAfterEnd or IOError, the program pointer in the error is    *)
(* the index of the instruction that was being executed, the instruction   *)
(* in the error is the one at that index, and its command is '<', '>' and  *)
(* '.' or ',' respectively.                                                *)
C22_ErrorLocation ==
    (/\ pc = "interpreter"
     /\ result.kind \in {"DataPtrMovedBeforeStart", "DataPtrMovedAfterEnd", "IOError"}) =>
        /\ executed.done
        /\ result.program_pointer = executed.program_pointer
        /\ result.program_pointer \in 0..(NumInstructions - 1)
        /\ result.instruction = instructions[result.program_pointer + 1]
        /\ result.instruction.command \in FailingCommands(result.kind)

\* a ',' that is not the first instruction has failed with IOError
C22_Witness ==
    /\ pc = "interpreter"
    /\ result.kind = "IOError"
    /\ result.program_pointer >= 1
    /\ result.instruction.command = "InputValue"
    /\ result.instruction = instructions[result.program_pointer + 1]

(* C23: a failing instruction changes neither the tape (contents and       *)
(* length), the data pointer, the program pointer nor what has been read   *)
(* and written, so what the instructions before it did stays in place; and *)
(* once a run has failed nothing is retried: no further step changes the   *)
(* engine.                                                                 *)
C23_NoRollbackNoRetry ==
    [][/\ (Running /\ result'.kind \notin {"None", "Ok"}) =>
             /\ tape' = tape
             /\ data_pointer' = data_pointer
             /\ program_pointer' = program_pointer
             /\ read_bytes' = read_bytes
             /\ written' = written
       /\ Failed => UNCHANGED tape_vars]_vars

\* a run has failed after an earlier instruction had changed a cell, and
\* the change is still there
C23_Witness ==
    /\ Failed
    /\ executed.program_pointer >= 1
    /\ program_pointer = executed.program_pointer
    /\ \E i \in 1..Len(tape) : tape[i] # 0

----------------------------------------------------------------------------
(* C24: in run_bft execution never starts on an unvalidated or invalid     *)
(* program: a tape exists and an instruction has been executed only after  *)
(* the one call of validate has returned Ok, on a balanced program; and    *)
(* when validate fails run_bft returns the error with no tape created, no  *)
(* instruction executed and nothing read or written by the program.        *)
C24_ValidateBeforeRun ==
    /\ (pc = "interpreter" \/ tape # <<>> \/ executed.done) =>
          /\ validate_calls = 1
          /\ Validated
          /\ Balanced
    /\ validate_result.kind = "Extra" =>
          /\ pc \in {"program", "returned", "exited"}
          /\ tape = <<>>
          /\ ~executed.done
          /\ read_bytes = <<>>
          /\ written = <<>>
          /\ result.kind = "None"
          /\ pc # "program" => run_bft_result.kind = "Err"

\* run_bft has returned the error of validate on a program that has
\* instructions to execute, and none was executed
C24_Witness ==
    /\ pc = "returned"
    /\ validate_result.kind = "Extra"
    /\ run_bft_result.kind = "Err"
    /\ NumInstructions >= 2
    /\ instructions[1].command = "OutputValue"
    /\ tape = <<>>
    /\ written = <<>>

(* C25: the process exits with code 1 whenever the program file could not  *)
(* be loaded, validate failed or interpreter returned a runtime error, and *)
(* with code 0 only when the program was run with no issue.                *)
C25_ExitCode ==
    pc = "exited" =>
        exit_status.code =
            IF \/ validate_calls = 0
               \/ validate_result.kind = "Extra"
               \/ result.kind \notin {"None", "Ok"}
            THEN 1 ELSE 0

----------------------------------------------------------------------------
(* C26: BfTape::new called with tape_size 0 makes a tape of exactly 30000  *)
(* cells and with tape_size n > 0 a tape of exactly n cells; every cell is *)
(* zero and the program pointer and the data pointer are both 0.           *)
C26_NewTape ==
    pc = "interpreter" =>
        /\ Len(tape) = IF new_tape_size = 0 THEN 30000 ELSE new_tape_size
        /\ \A i \in 1..Len(tape) : tape[i] = 0
        /\ program_pointer = 0
        /\ data_pointer = 0

\* a tape of the default size has been constructed
C26_Witness ==
    /\ pc = "interpreter"
    /\ new_tape_size = 0
    /\ Len(tape) = 30000
    /\ tape[30000] = 0

(* C27: for a program with zero instructions the engine is halted from    *)
(* the start: no step is ever executed, interpreter can only return Ok,    *)
(* nothing is read or written, and the tape and the data pointer stay as   *)
(* BfTape::new made them.                                                   *)
C27_EmptyProgram ==
    (pc = "interpreter" /\ NumInstructions = 0) =>
        /\ ~Running
        /\ ~executed.done
        /\ result.kind \in {"None", "Ok"}
        /\ read_bytes = <<>>
        /\ written = <<>>
        /\ program_pointer = 0
        /\ data_pointer = 0
        /\ tape = [i \in 1..new_tape_size |-> 0]

\* interpreter has returned Ok on a program with no instruction
C27_Witness ==
    /\ pc = "interpreter"
    /\ NumInstructions = 0
    /\ result.kind = "Ok"
    /\ ~executed.done
    /\ Len(tape) = new_tape_size

----------------------------------------------------------------------------
\* the command each of the eight command characters stands for
CommandNames ==
    (">" :> "IncDataPointer") @@ ("<" :> "DecDataPointer") @@
    ("+" :> "IncValue") @@ ("-" :> "DecValue") @@
    ("." :> "OutputValue") @@ ("," :> "InputValue") @@
    ("[" :> "JumpForward") @@ ("]" :> "JumpBackward")

\* the positions of the text that hold a command character
CommandPositions == {p \in 1..Len(content) : content[p] \in DOMAIN CommandNames}

\* the position in the text of the i-th command character
CommandPosition(i) ==
    CHOOSE p \in CommandPositions : Cardinality({q \in CommandPositions : q <= p}) = i

\* the line breaks of the text before position p
BreaksBefore(p) == {q \in 1..(p - 1) : content[q] = "\n"}

\* the position of the last line break before p, 0 if there is none
LineStart(p) ==
    IF BreaksBefore(p) = {} THEN 0
    ELSE CHOOSE q \in BreaksBefore(p) : \A r \in BreaksBefore(p) : r <= q

(* C28: BfProgram::new succeeds on every text and its instructions are     *)
(* exactly the command characters > < + - . , [ ] of the text, in the      *)
(* order of the text; any other character gives no instruction. Brackets   *)
(* are not checked: unbalanced text parses too, and until validate is      *)
(* called the table of bracket pairs is empty.                             *)
C28_ParseKeepsCommands ==
    pc = "program" =>
        /\ Len(instructions) = Cardinality(CommandPositions)
        /\ \A i \in 1..Len(instructions) :
              instructions[i].command = CommandNames[content[CommandPosition(i)]]
        /\ validate_calls = 0 =>
              /\ jump_locations = <<>>
              /\ validate_result.kind = "None"

\* an unbalanced text with a character that is no command has been parsed
C28_Witness ==
    /\ pc = "program"
    /\ validate_calls = 0
    /\ \E p \in 1..Len(content) : content[p] = "x"
    /\ \E p \in 1..Len(content) : content[p] = ","
    /\ NumInstructions = 2
    /\ ~Balanced
    /\ jump_locations = <<>>

(* C29: the line of every instruction is 1 plus the number of line breaks  *)
(* before its character in the text and its offset is 1 plus the number of *)
(* characters, commands or not, before it on its line. In "><+" newline    *)
(* "-." the first instruction is at 1:1 and the last at 2:2.               *)
C29_Locations ==
    pc = "program" =>
        /\ \A i \in 1..Len(instructions) :
              LET p == CommandPosition(i)
              IN  /\ instructions[i].location.line = 1 + Cardinality(BreaksBefore(p))
                  /\ instructions[i].location.offset = p - LineStart(p)
        /\ content = <<">", "<", "+", "\n", "-", ".">> =>
              /\ instructions[1].location = [line |-> 1, offset |-> 1]
              /\ instructions[5].location = [line |-> 2, offset |-> 2]
              /\ Len(instructions) = 5

\* an instruction on the second line stands after a character that is no command
C29_Witness ==
    /\ pc = "program"
    /\ \E i \in 1..Len(instructions) :
          /\ instructions[i].location = [line |-> 2, offset |-> 2]
          /\ content[CommandPosition(i) - 1] = "x"

----------------------------------------------------------------------------
\* a step of the interpreter on the tape that is being stepped
TapeStep ==
    \/ command_move_pointer_forward
    \/ command_move_pointer_back
    \/ command_inc_value
    \/ command_dec_value
    \/ command_output_value
    \/ command_input_value
    \/ command_jump_forward
    \/ command_jump_backward
    \/ interpreter_return

(* C30: execution never changes the program: no step taken once a tape     *)
(* exists changes the instructions or the table of bracket pairs. With two *)
(* tapes bound to the same validated program and stepped in any            *)
(* interleaving, every step is a step the tape being stepped takes when it *)
(* is run alone and leaves the other tape as it was, and turning from one  *)
(* tape to the other changes neither.                                      *)
C30_SharedProgram ==
    [][pc = "interpreter" =>
          /\ instructions' = instructions
          /\ jump_locations' = jump_locations
          /\ other_tape.bound =>
                \/ other_tape' = other_tape /\ TapeStep
                \/ other_tape' = ThisTape /\ ThisTape' = other_tape]_vars

\* two tapes of different sizes have both run a program with a loop to its
\* end, the second one started after the first had executed a step
C30_Witness ==
    /\ pc = "interpreter"
    /\ other_tape.bound
    /\ jump_locations # <<>>
    /\ result.kind = "Ok"
    /\ other_tape.result.kind = "Ok"
    /\ executed.done
    /\ other_tape.executed.done
    /\ Len(tape) # Len(other_tape.tape)
    /\ \E i \in 1..Len(tape) : tape[i] # 0

----------------------------------------------------------------------------
\* a bracket is fetched whose jump is due: '[' on a zero cell, ']' on a
\* non-zero cell
JumpDue ==
    \/ Fetch("JumpForward") /\ get_data_value = 0
    \/ Fetch("JumpBackward") /\ get_data_value # 0

(* C31: when the table of bracket pairs is empty, validate never having    *)
(* been called, executing '[' on a zero cell or ']' on a non-zero cell     *)
(* makes interpreter return the error BracketNotFound with the program     *)
(* pointer of that bracket, and the step changes neither the tape, the     *)
(* data pointer nor the program pointer.                                   *)
C31_BracketNotFound ==
    [][(JumpDue /\ jump_locations = <<>>) =>
          /\ result' = [kind |-> "BracketNotFound", program_pointer |-> program_pointer]
          /\ program_pointer' = program_pointer
          /\ tape' = tape
          /\ data_pointer' = data_pointer]_vars

\* a ']' that is not the first instruction has failed on a non-zero cell
\* away from the first cell, validate never having been called
C31_Witness ==
    /\ pc = "interpreter"
    /\ validate_calls = 0
    /\ result = [kind |-> "BracketNotFound", program_pointer |-> 2]
    /\ instructions[3].command = "JumpBackward"
    /\ program_pointer = 2
    /\ data_pointer = 1
    /\ tape[2] # 0

----------------------------------------------------------------------------
\* the 1-based places of the '[' and of the ']' of the pair that the bracket
\* executed last belongs to
ExecutedOpen ==
    IF IsForward(executed.program_pointer + 1)
    THEN executed.program_pointer + 1
    ELSE MatchingForward(executed.program_pointer + 1)

ExecutedClose ==
    IF IsForward(executed.program_pointer + 1)
    THEN MatchingBackward(executed.program_pointer + 1)
    ELSE executed.program_pointer + 1

\* the step executed last was a bracket of a validated program
ExecutedBracket ==
    /\ pc = "interpreter"
    /\ Validated
    /\ executed.done
    /\ ExecutedCommand \in {"JumpForward", "JumpBackward"}

(* C32: in a run on a validated program a step that executes '[' or ']'    *)
(* leaves the program pointer either at (index of the pair's '[') + 1 or   *)
(* at (index of the pair's ']') + 1; it leaves it at the first, inside the *)
(* loop body, only when the current cell was non-zero, and at the second,  *)
(* after the loop, only when the current cell was zero.                    *)
C32_LoopGuard ==
    ExecutedBracket =>
        /\ program_pointer \in {(ExecutedOpen - 1) + 1, (ExecutedClose - 1) + 1}
        /\ program_pointer = (ExecutedOpen - 1) + 1 => executed.cell # 0
        /\ program_pointer = (ExecutedClose - 1) + 1 => executed.cell = 0

\* a ']' has sent the run back into the body of an outer loop that holds
\* another loop
C32_Witness ==
    /\ ExecutedBracket
    /\ ExecutedCommand = "JumpBackward"
    /\ executed.cell # 0
    /\ program_pointer = ExecutedOpen
    /\ Fwd(ExecutedOpen + 1, ExecutedClose) > 0
    /\ result.kind = "None"

----------------------------------------------------------------------------
\* the validated program +[] is being run
EndlessRun ==
    /\ pc = "interpreter"
    /\ content = <<"+", "[", "]">>
    /\ Validated

(* C33: the engine has no step limit and no timeout: in the run of the     *)
(* validated program +[] interpreter never reaches the halted state        *)
(* (program pointer equal to the instruction count), never returns, with   *)
(* Ok or with an error, and always has a next instruction to execute; once *)
(* the '+' is executed the tested cell stays 1.                            *)
C33_NoStepLimit ==
    EndlessRun =>
        /\ result.kind = "None"
        /\ program_pointer \in 0..2
        /\ program_pointer # NumInstructions
        /\ Running
        /\ ENABLED (command_inc_value \/ command_jump_forward \/ command_jump_backward)
        /\ ~ENABLED interpreter_return
        /\ program_pointer >= 1 => tape[1] = 1

\* the ']' of +[] has sent the run back to the instruction after the '[',
\* which is that ']' again
C33_Witness ==
    /\ EndlessRun
    /\ executed.done
    /\ executed.program_pointer = 2
    /\ executed.cell = 1
    /\ program_pointer = 2
    /\ result.kind = "None"

----------------------------------------------------------------------------
\* the program has no '[' and no ']'
NoBrackets ==
    \A k \in 1..NumInstructions : ~IsForward(k) /\ ~IsBackward(k)

(* C34: in a program with no bracket every instruction that succeeds       *)
(* increases the program pointer by exactly one and a failing one ends the *)
(* run, so the instructions executed are those at the indices 0, 1, 2, ... *)
(* in turn, each once: the k-th step executes index k - 1, which is below  *)
(* the instruction count n, so at most n instructions are executed before  *)
(* interpreter returns, Ok once the pointer is n or the error at once.     *)
C34_StraightLine ==
    [][(pc = "interpreter" /\ NoBrackets) =>
          /\ Running =>
                /\ executed'.program_pointer =
                      IF executed.done THEN executed.program_pointer + 1 ELSE 0
                /\ executed'.program_pointer = program_pointer
                /\ executed'.program_pointer < NumInstructions
                /\ \/ result'.kind = "None" /\ program_pointer' = program_pointer + 1
                   \/ result'.kind \notin {"None", "Ok"} /\ program_pointer' = program_pointer
          /\ (result.kind = "None" /\ ~Running) =>
                /\ program_pointer = NumInstructions
                /\ result'.kind = "Ok"
                /\ executed' = executed
          /\ result.kind # "None" => UNCHANGED <<program_pointer, executed, result>>]_vars

\* a program of three instructions and no bracket has returned Ok after its
\* third instruction, having read and written
C34_Witness ==
    /\ pc = "interpreter"
    /\ NoBrackets
    /\ NumInstructions = 3
    /\ result.kind = "Ok"
    /\ executed.program_pointer = 2
    /\ program_pointer = 3
    /\ read_bytes # <<>>
    /\ written # <<>>

----------------------------------------------------------------------------
(* C35: over a whole run the tape has at least one cell; under TapeIsFixed *)
(* its length stays the one it was constructed with; under TapeCanGrow its *)
(* length never decreases and grows only in a step that executes '>' with  *)
(* the data pointer on the last cell, by exactly one cell holding zero put *)
(* at the end, the data pointer being on that new last cell afterwards.    *)
C35_TapeLength ==
    [][pc' = "interpreter" =>
          /\ Len(tape') >= 1
          /\ alloc_strategy' = "TapeIsFixed" => Len(tape') = new_tape_size'
          /\ pc = "interpreter" =>
                /\ alloc_strategy' = alloc_strategy
                /\ alloc_strategy = "TapeIsFixed" => Len(tape') = Len(tape)
                /\ Len(tape') >= Len(tape)
                /\ Len(tape') # Len(tape) =>
                      /\ alloc_strategy = "TapeCanGrow"
                      /\ Fetch("IncDataPointer")
                      /\ data_pointer = Len(tape) - 1
                      /\ tape' = Append(tape, 0)
                      /\ data_pointer' = Len(tape') - 1
                      /\ result' = result]_vars

\* a growing tape has been extended twice and the run has gone on to change
\* a cell of the longer tape
C35_Witness ==
    /\ pc = "interpreter"
    /\ alloc_strategy = "TapeCanGrow"
    /\ Len(tape) = new_tape_size + 2
    /\ executed.done
    /\ ExecutedCommand # "IncDataPointer"
    /\ tape[Len(tape)] # 0

----------------------------------------------------------------------------
\* the step keeps the length of the tape and every cell but the current one
OtherCellsKept ==
    /\ Len(tape') = Len(tape)
    /\ \A i \in 1..Len(tape) : i # data_pointer + 1 => tape'[i] = tape[i]

\* the step keeps the value of every cell the tape had
CellsKept ==
    /\ Len(tape') >= Len(tape)
    /\ \A i \in 1..Len(tape) : tape'[i] = tape[i]

(* C36: what each instruction leaves alone. '+', '-' and ',' change no     *)
(* cell but the one at the data pointer and not the data pointer; '.'      *)
(* changes no cell and not the data pointer; '<' and '>' change the value  *)
(* of no cell the tape has; '[' and ']' change neither the tape nor the    *)
(* data pointer; and only ',' reads and only '.' writes.                   *)
C36_Frame ==
    [][/\ (Fetch("IncValue") \/ Fetch("DecValue")) =>
             /\ OtherCellsKept
             /\ UNCHANGED <<data_pointer, read_bytes, written>>
       /\ Fetch("InputValue") =>
             /\ OtherCellsKept
             /\ UNCHANGED <<data_pointer, written>>
       /\ Fetch("OutputValue") =>
             UNCHANGED <<tape, data_pointer, read_bytes>>
       /\ (Fetch("IncDataPointer") \/ Fetch("DecDataPointer")) =>
             /\ CellsKept
             /\ UNCHANGED <<read_bytes, written>>
       /\ (Fetch("JumpForward") \/ Fetch("JumpBackward")) =>
             UNCHANGED <<tape, data_pointer, read_bytes, written>>
       /\ Running => UNCHANGED <<alloc_strategy, output_format, instructions, jump_locations>>
      ]_vars

\* a ',' has stored a byte in the second cell and the first cell still
\* holds what an earlier '+' made of it
C36_Witness ==
    /\ pc = "interpreter"
    /\ executed.done
    /\ ExecutedCommand = "InputValue"
    /\ last_read = "Byte"
    /\ data_pointer = 1
    /\ tape[1] = 1
    /\ tape[2] = 55

----------------------------------------------------------------------------
\* location a is before location b in the text: lexicographic on (line, offset)
LocationBefore(a, b) ==
    \/ a.line < b.line
    \/ a.line = b.line /\ a.offset < b.offset

\* the 0-based indices of the instructions that stand at location loc
IndicesAt(loc) ==
    {i \in 0..(NumInstructions - 1) :
        /\ instructions[i + 1].location.line = loc.line
        /\ instructions[i + 1].location.offset = loc.offset}

(* C37: in every program built by BfProgram::new the locations of the      *)
(* instructions are strictly increasing in sequence order, lexicographic   *)
(* on (line, offset), hence pairwise distinct; so the scan over the        *)
(* instructions that jump_forward and jump_backward make for a location    *)
(* finds exactly one index for the location of an instruction, the index   *)
(* of that instruction.                                                    *)
C37_LocationsDistinct ==
    pc = "program" =>
        /\ \A i \in 1..NumInstructions : \A j \in (i + 1)..NumInstructions :
              /\ LocationBefore(instructions[i].location, instructions[j].location)
              /\ instructions[i].location # instructions[j].location
        /\ \A k \in 1..NumInstructions :
              /\ IndicesAt(instructions[k].location) = {k - 1}
              /\ instruction_index(instructions[k].location) = k - 1

\* a ']' stands on a later line at a smaller offset than the instruction
\* before it, and validate has recorded its pair
C37_Witness ==
    /\ pc = "program"
    /\ Validated
    /\ \E k \in 2..NumInstructions :
          /\ IsBackward(k)
          /\ instructions[k].location.line > instructions[k - 1].location.line
          /\ instructions[k].location.offset < instructions[k - 1].location.offset
          /\ \E n \in 1..Len(jump_locations) :
                jump_locations[n].backward = instructions[k].location

----------------------------------------------------------------------------
\* the commands that interpreter's dispatch executes
ExecutableCommands == {CommandNames[ch] : ch \in DOMAIN CommandNames}

(* C38: from_char gives a command for each of the eight command characters *)
(* and nothing for any other character, never Comment; so no instruction   *)
(* of a program built by BfProgram::new has the command Comment, and the   *)
(* instruction interpreter fetches is always one of the eight commands its *)
(* dispatch executes, never the Comment branch that would abort.           *)
C38_NoComment ==
    /\ \A ch \in TextChars :
          /\ from_char(ch) # "Comment"
          /\ ch \in CommandChars => from_char(ch) = CommandNames[ch]
          /\ ch \notin CommandChars => from_char(ch) = "None"
    /\ pc # "start" =>
          \A i \in 1..NumInstructions :
              /\ instructions[i].command # "Comment"
              /\ instructions[i].command \in ExecutableCommands
    /\ Running =>
          /\ current_instruction.command # "Comment"
          /\ current_instruction.command \in ExecutableCommands

\* a text with characters that are no commands has been run to its end
C38_Witness ==
    /\ pc = "interpreter"
    /\ \E p \in 1..Len(content) : content[p] = "x"
    /\ NumInstructions < Len(content)
    /\ NumInstructions > 0
    /\ executed.done
    /\ executed.program_pointer = NumInstructions - 1
    /\ result.kind = "Ok"

----------------------------------------------------------------------------
\* the place of the first ']' met while no '[' is open, past the end if
\* there is none: where the scan of validate stops
ScanStop ==
    IF \E n \in 1..NumInstructions : ExtraBackward(n)
    THEN CHOOSE n \in 1..NumInstructions :
             ExtraBackward(n) /\ \A m \in 1..(n - 1) : ~ExtraBackward(m)
    ELSE NumInstructions + 1

\* the pairs whose ']' the scan has met before it stops
ClosedBeforeStop ==
    {<<k, j>> \in (1..NumInstructions) \X (1..NumInstructions) :
        k < j /\ Closes(k, j) /\ j < ScanStop}

\* the (forward, backward) locations held by the table
TablePairs ==
    {<<jump_locations[n].forward, jump_locations[n].backward>> :
        n \in 1..Len(jump_locations)}

(* C39: when validate returns an error the table of bracket pairs is not   *)
(* rolled back: after one failed validate it holds exactly the pairs whose *)
(* ']' was met before the failure was detected, each once. After the       *)
(* failed validation of []] it holds the one pair 1:1 / 1:2, after that of *)
(* [[] the one pair 1:2 / 1:3.                                             *)
C39_NoRollback ==
    (pc = "program" /\ validate_calls = 1 /\ validate_result.kind = "Extra") =>
        /\ TablePairs = {<<instructions[p[1]].location, instructions[p[2]].location>> :
                            p \in ClosedBeforeStop}
        /\ Len(jump_locations) = Cardinality(ClosedBeforeStop)
        /\ content = <<"[", "]", "]">> =>
              /\ Len(jump_locations) = 1
              /\ jump_locations[1].forward = [line |-> 1, offset |-> 1]
              /\ jump_locations[1].backward = [line |-> 1, offset |-> 2]
        /\ content = <<"[", "[", "]">> =>
              /\ Len(jump_locations) = 1
              /\ jump_locations[1].forward = [line |-> 1, offset |-> 2]
              /\ jump_locations[1].backward = [line |-> 1, offset |-> 3]

\* validate has failed on a ']' with no '[' open after it had closed a pair,
\* and the pair is in the table
C39_Witness ==
    /\ pc = "program"
    /\ validate_calls = 1
    /\ validate_result.kind = "Extra"
    /\ validate_result.instruction.command = "JumpBackward"
    /\ ScanStop = 3
    /\ Len(jump_locations) = 1
    /\ jump_locations[1].backward = instructions[2].location

----------------------------------------------------------------------------
(* C40: for a program with at least one instruction a call of              *)
(* move_program_pointer_forward with the program pointer on the last       *)
(* instruction returns ProgramPtrMovedAfterEnd, carrying that pointer and  *)
(* that instruction, and leaves the pointer where it is; any other call    *)
(* returns Ok and adds one to the pointer. So the pointer stays below the  *)
(* instruction count, and on a program of two instructions the first call  *)
(* succeeds and the second fails.                                          *)
C40_MoveProgramPointer ==
    [][(pc = "interpreter" /\ NumInstructions >= 1) =>
          /\ IF program_pointer = NumInstructions - 1
             THEN /\ move_result'.kind = "ProgramPtrMovedAfterEnd"
                  /\ move_result'.program_pointer = program_pointer
                  /\ move_result'.instruction = instructions[NumInstructions]
                  /\ program_pointer' = program_pointer
             ELSE /\ move_result' = [kind |-> "Ok"]
                  /\ program_pointer' = program_pointer + 1
          /\ program_pointer' < NumInstructions
          /\ (NumInstructions = 2 /\ move_result.kind = "None") => move_result'.kind = "Ok"
          /\ (NumInstructions = 2 /\ move_result.kind = "Ok") =>
                move_result'.kind = "ProgramPtrMovedAfterEnd"]_vars

\* the test program_pointer_moved_after_end: on the program >< the second
\* call has failed, the pointer being on the last instruction
C40_Witness ==
    /\ pc = "interpreter"
    /\ content = <<">", "<">>
    /\ Len(tape) = TEST_TAPE_SIZE
    /\ alloc_strategy = "TapeIsFixed"
    /\ output_format = "BinaryOutput"
    /\ move_result.kind = "ProgramPtrMovedAfterEnd"
    /\ move_result.program_pointer = 1
    /\ program_pointer = 1

====
